---- MODULE Spec2Model ----
(***************************************************************************)
(* Model of bdhammel/agent_sandbox: the Agent.run override with terminal   *)
(* tools (agent.py), the SQLite message store behind a single-worker       *)
(* thread pool (db.py), the chat endpoint (app.py) and the PydanticAI ->   *)
(* AG-UI message converter (utils.py).                                     *)
(*                                                                         *)
(* Three specifications share the variables: SpecAgent, SpecDb, SpecConv.  *)
(* Each one moves its own variables and leaves the others at their initial *)
(* values.                                                                 *)
(***************************************************************************)
EXTENDS Integers, Sequences, FiniteSets, TLC

VARIABLES
    \* ---- agent.py: one Agent.run call ----
    terminal_tools,   \* Agent.terminal_tools
    handler,          \* event_stream_handler is not None
    apc,              \* position of Agent.run
    node,             \* the node the iteration yielded last
    ran,              \* node.stream() has already run the current node
    cached,           \* the node that running the current node produced
    marker,           \* agent_run._graph_run._next, when it is an EndMarker
    early_exit,       \* deps.early_exit (test_terminal_tool.Deps)
    calls,            \* the local list `calls` of Agent.run
    events,           \* what the framework did so far: model calls, tool runs
    result,           \* what Agent.run returned
    \* ---- db.py / app.py: the store, its executor and the coroutines ----
    table,            \* the rows of table `messages`
    committed,        \* the largest row id a commit has made durable
    closed,           \* con.close() has run
    queue,            \* the executor's work queue (submitted, not started)
    running,          \* what each worker thread of the executor is running
    submitLog,        \* task ids in the order they were submitted
    execLog,          \* task ids in the order a worker started them
    procs,            \* the coroutines: one database call or request each
    opsLeft,          \* calls that can still be made
    lifespan,         \* app.lifespan: "up", "closing", "down"
    addLog,           \* history: the add_messages calls that returned
    \* ---- utils.py: one pydantic_ai2ag_ui call ----
    messages,         \* the argument `messages`
    convert_events,   \* the argument `convert_events`
    ci,               \* how many messages the loop has taken
    full_messages,    \* the list `full_messages`
    out,              \* what the last message was converted to
    cpc,              \* "loop", "returned", "raised" (TypeError)
    earlier           \* what an earlier call for the same list returned

agentVars == <<terminal_tools, handler, apc, node, ran, cached, marker,
               early_exit, calls, events, result>>

dbVars == <<table, committed, closed, queue, running, submitLog, execLog,
            procs, opsLeft, lifespan, addLog>>

convVars ==
    <<messages, convert_events, ci, full_messages, out, cpc, earlier>>

vars == <<agentVars, dbVars, convVars>>

----------------------------------------------------------------------------
(* Bounds *)

MaxModelCalls == 2    \* model requests of one run
MaxToolCalls == 2     \* tool-call parts of one model response
NProcs == 2           \* coroutines that use the database at the same time
MaxOps == 2           \* database calls and chat requests in one behaviour
MaxParts == 3         \* parts of one message given to the converter
MaxMeta == 2          \* metadata entries of one tool return
MaxMsgs == 2          \* messages of one list given to the converter

----------------------------------------------------------------------------
(* Generic helpers *)

RECURSIVE CountIf(_, _)
CountIf(s, kinds) ==
    IF s = <<>> THEN 0
    ELSE (IF Head(s).e \in kinds THEN 1 ELSE 0) + CountIf(Tail(s), kinds)

----------------------------------------------------------------------------
(* agent.py *)

ToolNames == {"secret_plan", "password_guesser_tool"}
Passwords == {4, 7}

NoFinal == [output |-> "", tool_name |-> "", tool_call_id |-> 0]
NoMarker == [end |-> FALSE, value |-> NoFinal]
NoNode == [kind |-> "None", parts |-> <<>>, final |-> NoFinal]

UserPromptNode ==
    [kind |-> "UserPromptNode", parts |-> <<>>, final |-> NoFinal]
ModelRequestNode(parts) ==
    [kind |-> "ModelRequestNode", parts |-> parts, final |-> NoFinal]
CallToolsNode(parts) ==
    [kind |-> "CallToolsNode", parts |-> parts, final |-> NoFinal]
End(final) == [kind |-> "End", parts |-> <<>>, final |-> final]

UserPromptPart ==
    [part_kind |-> "user-prompt", tool_name |-> "", arg |-> 0,
     content |-> "pw=4 whats the plan?", tool_call_id |-> 0]
TextPart ==
    [part_kind |-> "text", tool_name |-> "", arg |-> 0,
     content |-> "final text", tool_call_id |-> 0]
ToolCallPart(name, arg, id) ==
    [part_kind |-> "tool-call", tool_name |-> name, arg |-> arg,
     content |-> "", tool_call_id |-> id]
ToolReturnPart(name, content, id) ==
    [part_kind |-> "tool-return", tool_name |-> name, arg |-> 0,
     content |-> content, tool_call_id |-> id]

\* test_terminal_tool.secret_plan: the value it returns
secret_plan(password) ==
    IF password = 4 THEN "Plan(collect underpants, ?, profit!)"
    ELSE "Plan(access denied)"

\* test_terminal_tool.secret_plan: ctx.deps.early_exit after the call
secret_plan_sets_flag(password, flag) ==
    IF password = 4 THEN TRUE ELSE flag

\* app.password_guesser_tool
password_guesser_tool(guess) ==
    IF guess < 4 THEN "higher"
    ELSE IF guess > 4 THEN "lower"
    ELSE "You got it!"

\* The responses the model can give to one request: a final text, or
\* 1..MaxToolCalls tool calls.  n is the number of the model request.
ToolCallSeqs(n) ==
    UNION { { [k \in 1..len |-> ToolCallPart(f[k][1], f[k][2], 10 * n + k)] :
                f \in [1..len -> ToolNames \X Passwords] } :
            len \in 1..MaxToolCalls }
ModelResponses(n) ==
    IF n >= MaxModelCalls THEN {<<TextPart>>}
    ELSE {<<TextPart>>} \cup ToolCallSeqs(n)

\* CallToolsNode.run on a response with tool calls: the tools run in part
\* order; the request of the next ModelRequestNode carries their returns.
RECURSIVE RunTools(_, _)
RunTools(parts, flag) ==
    IF parts = <<>> THEN [returns |-> <<>>, log |-> <<>>, flag |-> flag]
    ELSE LET p == Head(parts)
             content == IF p.tool_name = "secret_plan"
                        THEN secret_plan(p.arg)
                        ELSE password_guesser_tool(p.arg)
             f == IF p.tool_name = "secret_plan"
                  THEN secret_plan_sets_flag(p.arg, flag)
                  ELSE flag
             rest == RunTools(Tail(parts), f)
         IN  [returns |-> <<ToolReturnPart(p.tool_name, content, p.tool_call_id)>>
                          \o rest.returns,
              log |-> <<[e |-> "tool", flag |-> f]>> \o rest.log,
              flag |-> rest.flag]

NumModelCalls == CountIf(events, {"model"})

\* Running one node of the graph (the framework's node.run / node.stream):
\* the node that follows, what happened, and deps.early_exit afterwards.
\* resp is the model's answer, used by a ModelRequestNode only.
RunNode(n, resp, flag) ==
    CASE n.kind = "UserPromptNode" ->
            [next |-> ModelRequestNode(<<UserPromptPart>>), log |-> <<>>,
             flag |-> flag]
      [] n.kind = "ModelRequestNode" ->
            [next |-> CallToolsNode(resp),
             log |-> <<[e |-> "model", flag |-> flag]>>, flag |-> flag]
      [] n.kind = "CallToolsNode" ->
            IF n.parts[1].part_kind = "text"
            THEN [next |-> End([output |-> n.parts[1].content,
                                tool_name |-> "", tool_call_id |-> 0]),
                  log |-> <<>>, flag |-> flag]
            ELSE LET r == RunTools(n.parts, flag)
                 IN  [next |-> ModelRequestNode(r.returns), log |-> r.log,
                      flag |-> r.flag]

\* early_exit_if_terminal_node, the loop over node.request.parts
RECURSIVE FirstTerminalPart(_, _)
FirstTerminalPart(parts, tools) ==
    IF parts = <<>> THEN [hit |-> FALSE, final |-> NoFinal]
    ELSE LET part == Head(parts)
         IN  IF part.part_kind = "tool-return" /\ part.tool_name \in tools
             THEN [hit |-> TRUE,
                   final |-> [output |-> part.content,
                              tool_name |-> part.tool_name,
                              tool_call_id |-> part.tool_call_id]]
             ELSE FirstTerminalPart(Tail(parts), tools)

\* a plausible slip: the final result carries the tool's name, not its content
early_exit_wrong_output(n, tools) ==
    IF n.kind # "ModelRequestNode" THEN [hit |-> FALSE, final |-> NoFinal]
    ELSE LET r == FirstTerminalPart(n.parts, tools)
         IN  [hit |-> r.hit,
              final |-> [r.final EXCEPT !.output = r.final.tool_name]]

\* a plausible slip: any tool return ends the run, terminal tool or not
early_exit_on_any_tool_return(n, tools) ==
    IF n.kind # "ModelRequestNode" THEN [hit |-> FALSE, final |-> NoFinal]
    ELSE FirstTerminalPart(n.parts, ToolNames)

early_exit_if_terminal_node(n, tools) ==
    IF n.kind # "ModelRequestNode" THEN [hit |-> FALSE, final |-> NoFinal]
    ELSE FirstTerminalPart(n.parts, tools)

InitAgent ==
    /\ terminal_tools \in SUBSET ToolNames
    /\ handler \in BOOLEAN
    /\ apc = "next"
    /\ node = NoNode
    /\ ran = FALSE
    /\ cached = NoNode
    /\ marker = NoMarker
    /\ early_exit = FALSE
    /\ calls = <<>>
    /\ events = <<>>
    /\ result = NoFinal

\* `async for node in agent_run`: the first node of the run
AnextFirst ==
    /\ apc = "next"
    /\ node = NoNode
    /\ node' = UserPromptNode
    /\ apc' = "body"
    /\ UNCHANGED <<terminal_tools, handler, ran, cached, marker, early_exit,
                   calls, events, result>>
    /\ UNCHANGED <<dbVars, convVars>>

\* `async for node in agent_run`: the current node is run (unless its stream
\* already ran it) and the node it produced is yielded; reaching End sets
\* the run's EndMarker
AnextRun ==
    /\ apc = "next"
    /\ node.kind \in {"UserPromptNode", "ModelRequestNode", "CallToolsNode"}
    /\ \E resp \in ModelResponses(NumModelCalls + 1) :
         LET r == IF ran THEN [next |-> cached, log |-> <<>>, flag |-> early_exit]
                  ELSE RunNode(node, resp, early_exit)
         IN  /\ node' = r.next
             /\ events' = events \o r.log
             /\ early_exit' = r.flag
             /\ marker' = IF r.next.kind = "End"
                          THEN [end |-> TRUE, value |-> r.next.final]
                          ELSE marker
    /\ ran' = FALSE
    /\ cached' = NoNode
    /\ apc' = "body"
    /\ UNCHANGED <<terminal_tools, handler, calls, result>>
    /\ UNCHANGED <<dbVars, convVars>>

\* `async for node in agent_run`: after End the iteration stops
AnextStop ==
    /\ apc = "next"
    /\ node.kind = "End"
    /\ apc' = "after_loop"
    /\ UNCHANGED <<terminal_tools, handler, node, ran, cached, marker,
                   early_exit, calls, events, result>>
    /\ UNCHANGED <<dbVars, convVars>>

\* Agent.run, lines 167-173: record the node, break on a terminal tool return
LoopBody ==
    /\ apc = "body"
    /\ calls' = Append(calls, node)
    /\ LET r == early_exit_if_terminal_node(node, terminal_tools)
       IN  IF terminal_tools # {} /\ r.hit
           THEN /\ marker' = [end |-> TRUE, value |-> r.final]
                /\ apc' = "after_loop"
           ELSE /\ marker' = marker
                /\ apc' = "stream"
    /\ UNCHANGED <<terminal_tools, handler, node, ran, cached, early_exit,
                   events, result>>
    /\ UNCHANGED <<dbVars, convVars>>

\* Agent.run, lines 175-179: the node is streamed to the handler, which runs it
StreamNode ==
    /\ apc = "stream"
    /\ handler
    /\ node.kind \in {"ModelRequestNode", "CallToolsNode"}
    /\ \E resp \in ModelResponses(NumModelCalls + 1) :
         LET r == RunNode(node, resp, early_exit)
         IN  /\ cached' = r.next
             /\ events' = events \o r.log
             /\ early_exit' = r.flag
    /\ ran' = TRUE
    /\ apc' = "next"
    /\ UNCHANGED <<terminal_tools, handler, node, marker, calls, result>>
    /\ UNCHANGED <<dbVars, convVars>>

\* Agent.run, line 175: no handler, or a node that is not streamed
SkipStream ==
    /\ apc = "stream"
    /\ ~(handler /\ node.kind \in {"ModelRequestNode", "CallToolsNode"})
    /\ apc' = "next"
    /\ UNCHANGED <<terminal_tools, handler, node, ran, cached, marker,
                   early_exit, calls, events, result>>
    /\ UNCHANGED <<dbVars, convVars>>

\* a plausible slip: the run returns without looking at agent_run.result
AfterLoopUnchecked ==
    /\ apc = "after_loop"
    /\ result' = result
    /\ apc' = "returned"
    /\ UNCHANGED <<terminal_tools, handler, node, ran, cached, marker,
                   early_exit, calls, events>>
    /\ UNCHANGED <<dbVars, convVars>>

\* Agent.run, lines 181-183: agent_run.result is the EndMarker's value
AfterLoop ==
    /\ apc = "after_loop"
    /\ IF marker.end
       THEN /\ result' = marker.value
            /\ apc' = "returned"
       ELSE /\ result' = result
            /\ apc' = "assert_failed"
    /\ UNCHANGED <<terminal_tools, handler, node, ran, cached, marker,
                   early_exit, calls, events>>
    /\ UNCHANGED <<dbVars, convVars>>

NextAgent ==
    \/ AnextFirst
    \/ AnextRun
    \/ AnextStop
    \/ LoopBody
    \/ StreamNode
    \/ SkipStream
    \/ AfterLoop

----------------------------------------------------------------------------
(* db.py: the message store *)

\* Strings are sequences of character codes: "" is <<>>.  A str | None
\* argument is a record: None is [some |-> FALSE].
None == [some |-> FALSE, val |-> <<>>]
Some(str) == [some |-> TRUE, val |-> str]

\* Python truth value of a str | None
Truthy(x) == x.some /\ x.val # <<>>

\* conversation identifiers rows are written with: "ab", "b"
ConvIds == {<<1, 2>>, <<2>>}

\* what get_messages is asked for: everything, "", "b"
Wanted == {None, Some(<<>>), Some(<<2>>)}

\* ModelMessagesTypeAdapter.dump_json: a message list as JSON tokens
RECURSIVE JoinComma(_)
JoinComma(ms) ==
    IF ms = <<>> THEN <<>>
    ELSE IF Len(ms) = 1 THEN ms
    ELSE <<Head(ms), ",">> \o JoinComma(Tail(ms))
dump_json(ms) == <<"[">> \o JoinComma(ms) \o <<"]">>

\* ModelMessagesTypeAdapter.validate_json: the message list of a JSON text
validate_json(bytes) ==
    SelectSeq(bytes, LAMBDA tok : tok \notin {"[", ",", "]"})

\* The JSON text add_messages is called with holds the messages of one
\* turn: one message or two, by the number of calls still to come.
Payloads(k) ==
    IF k % 2 = 0 THEN {dump_json(<<"m1">>)} ELSE {dump_json(<<"m2", "m3">>)}

\* a plausible slip: a pool with one more worker thread
two_workers == 1 + 1

\* the executor: ThreadPoolExecutor(max_workers=1)
max_workers == 1
Threads == 1..max_workers

NoTask == [id |-> 0, proc |-> 0, fn |-> "none"]
NoProc ==
    [op |-> "none", pc |-> "idle", cid |-> None, msg |-> <<>>,
     fut |-> "none", val |-> <<>>, cur |-> 0, ret |-> <<>>,
     n0 |-> 0, n1 |-> 0, after |-> 0, task |-> 0, status |-> 0,
     body |-> "none"]
Procs == 1..NProcs

MaxId(tbl) ==
    IF tbl = {} THEN 0 ELSE CHOOSE n \in {r.id : r \in tbl} :
                                \A r \in tbl : r.id <= n

\* a plausible slip: conversation_id taken as the key, INSERT OR REPLACE
InsertOrReplace(tbl, c, m) ==
    {r \in tbl : r.conversation_id # c}
        \cup {[id |-> MaxId(tbl) + 1, conversation_id |-> c, message_list |-> m]}

\* a plausible slip: the new row is put before the rows there are
InsertInFront(tbl, c, m) ==
    LET first == IF tbl = {} THEN 1
                 ELSE CHOOSE n \in {r.id : r \in tbl} : \A r \in tbl : n <= r.id
    IN  tbl \cup {[id |-> first - 1, conversation_id |-> c, message_list |-> m]}

\* INSERT INTO messages (conversation_id, message_list) VALUES (?, ?):
\* id is INTEGER PRIMARY KEY, so the row gets the largest id plus one
Insert(tbl, c, m) ==
    tbl \cup {[id |-> MaxId(tbl) + 1, conversation_id |-> c, message_list |-> m]}

\* ORDER BY id
RECURSIVE OrderById(_)
OrderById(S) ==
    IF S = {} THEN <<>>
    ELSE LET r == CHOOSE x \in S : \A y \in S : x.id <= y.id
         IN  <<r>> \o OrderById(S \ {r})

\* comparison of TEXT values (BINARY collation): byte by byte, a proper
\* prefix first
RECURSIVE LexLess(_, _)
LexLess(a, b) ==
    IF b = <<>> THEN FALSE
    ELSE IF a = <<>> THEN TRUE
    ELSE IF Head(a) # Head(b) THEN Head(a) < Head(b)
    ELSE LexLess(Tail(a), Tail(b))

\* ORDER BY conversation_id, over a set of identifiers
RECURSIVE OrderLex(_)
OrderLex(S) ==
    IF S = {} THEN <<>>
    ELSE LET c == CHOOSE x \in S : \A y \in S \ {x} : LexLess(x, y)
         IN  <<c>> \o OrderLex(S \ {c})

\* The SELECT of get_messages, lines 107-116: `if conversation_id:` picks
\* the statement with the WHERE clause
SelectMessageLists(tbl, cid) ==
    LET S == IF Truthy(cid) THEN {r \in tbl : r.conversation_id = cid.val}
             ELSE tbl
        ordered == OrderById(S)
    IN  [i \in 1..Len(ordered) |-> ordered[i].message_list]

\* a plausible slip: the DISTINCT and the ORDER BY conversation_id are missing
SelectConversationsPlain(tbl) ==
    LET ordered == OrderById(tbl)
    IN  [i \in 1..Len(ordered) |-> ordered[i].conversation_id]

\* SELECT DISTINCT conversation_id FROM messages ORDER BY conversation_id
SelectConversations(tbl) ==
    OrderLex({r.conversation_id : r \in tbl})

\* get_messages, lines 118-121: the rows' lists, decoded and concatenated
RECURSIVE ExtendAll(_)
ExtendAll(rws) ==
    IF rws = <<>> THEN <<>>
    ELSE validate_json(Head(rws)) \o ExtendAll(Tail(rws))

\* a plausible slip: the cursor returns the rows from one on, not up to one
SeenFrom(tbl, k) == {r \in tbl : r.id >= k}

\* What a cursor whose SELECT ran when the table had lo rows can return
\* when fetchall runs: the statement is stepped partly by execute and
\* partly by fetchall, and SQLite leaves open whether it sees rows the
\* same connection inserted in between.
SeenBy(tbl, k) == {r \in tbl : r.id <= k}

\* Database.connect, lines 50-56, and _connect: the file is opened and the
\* table created if it is not there; rows of an earlier run are kept
InitialTables ==
    {{}, {[id |-> 1, conversation_id |-> <<2>>,
           message_list |-> dump_json(<<"m0">>)]}}

DbStart(tbl) ==
    /\ table = tbl
    /\ committed = MaxId(tbl)
    /\ closed = FALSE
    /\ queue = <<>>
    /\ running = [t \in Threads |-> NoTask]
    /\ submitLog = <<>>
    /\ execLog = <<>>
    /\ procs = [p \in Procs |-> NoProc]
    /\ addLog = <<>>
    /\ opsLeft = MaxOps
    /\ lifespan = "up"

InitDb == \E tbl \in InitialTables : DbStart(tbl)

\* _asyncify: loop.run_in_executor(self._executor, ...) puts the call on the
\* executor's queue; the coroutine then waits for its future
Submit(p, fn) ==
    LET t == [id |-> Len(submitLog) + 1, proc |-> p, fn |-> fn]
    IN  /\ queue' = Append(queue, t)
        /\ submitLog' = Append(submitLog, t.id)

\* A call is made by a coroutine that is not inside a call.  The coroutines
\* are interchangeable, so the one with the smallest number makes it.
Free(p) == procs[p].pc \in {"idle", "done", "raised"}
CanCall(p) ==
    /\ lifespan = "up"
    /\ opsLeft > 0
    /\ Free(p)
    /\ \A q \in 1..(p - 1) : ~Free(q)

\* The coroutine that goes on is the one whose future was resolved first:
\* the event loop runs its callbacks in the order they were registered, and
\* the one worker thread resolves the futures in the order of the calls.
Resolved(p) == procs[p].fut \in {"ok", "exc"}
Resumes(p) ==
    /\ Resolved(p)
    /\ \A q \in Procs : Resolved(q) => procs[p].task <= procs[q].task

\* add_messages, lines 88-94: the INSERT is submitted
AddMessagesCall(p, c) ==
    /\ CanCall(p)
    /\ \E m \in Payloads(opsLeft) :
         procs' = [procs EXCEPT ![p] =
                    [NoProc EXCEPT !.op = "add_messages", !.pc = "await1",
                                   !.cid = Some(c), !.msg = m,
                                   !.fut = "pending",
                                   !.task = Len(submitLog) + 1,
                                   !.n0 = Cardinality(table)]]
    /\ Submit(p, "insert")
    /\ opsLeft' = opsLeft - 1
    /\ UNCHANGED <<table, committed, closed, running, execLog, lifespan>>
    /\ UNCHANGED <<agentVars, convVars, addLog>>

\* add_messages, line 95: the INSERT is done, con.commit is submitted
AddMessagesCommit(p) ==
    /\ procs[p].op = "add_messages"
    /\ procs[p].pc = "await1"
    /\ procs[p].fut \in {"ok", "exc"}
    /\ Resumes(p)
    /\ IF procs[p].fut = "ok"
       THEN /\ procs' = [procs EXCEPT ![p].pc = "await2", ![p].fut = "pending",
                                      ![p].task = Len(submitLog) + 1]
            /\ Submit(p, "commit")
       ELSE /\ procs' = [procs EXCEPT ![p].pc = "raised", ![p].fut = "none"]
            /\ UNCHANGED <<queue, submitLog>>
    /\ UNCHANGED <<table, committed, closed, running, execLog, opsLeft,
                   lifespan>>
    /\ UNCHANGED <<agentVars, convVars, addLog>>

\* add_messages returns
AddMessagesReturn(p) ==
    /\ procs[p].op = "add_messages"
    /\ procs[p].pc = "await2"
    /\ procs[p].fut \in {"ok", "exc"}
    /\ Resumes(p)
    /\ procs' = [procs EXCEPT
                    ![p].pc = IF procs[p].fut = "ok" THEN "done" ELSE "raised",
                    ![p].fut = "none",
                    ![p].n1 = Cardinality(table)]
    /\ addLog' = IF procs[p].fut = "ok"
                 THEN Append(addLog, [row |-> procs[p].cur,
                                      conversation_id |-> procs[p].cid.val,
                                      message_list |-> procs[p].msg,
                                      committed |-> committed])
                 ELSE addLog
    /\ UNCHANGED <<table, committed, closed, queue, running, submitLog,
                   execLog, opsLeft, lifespan>>
    /\ UNCHANGED <<agentVars, convVars>>

\* get_messages, lines 107-116: the SELECT is submitted
GetMessagesCall(p, cid) ==
    /\ CanCall(p)
    /\ procs' = [procs EXCEPT ![p] =
                    [NoProc EXCEPT !.op = "get_messages", !.pc = "await1",
                                   !.cid = cid, !.fut = "pending",
                                   !.task = Len(submitLog) + 1,
                                   !.n0 = Cardinality(table),
                                   !.after = Len(addLog)]]
    /\ Submit(p, "select_messages")
    /\ opsLeft' = opsLeft - 1
    /\ UNCHANGED <<table, committed, closed, running, execLog, lifespan>>
    /\ UNCHANGED <<agentVars, convVars, addLog>>

\* get_conversations, lines 129-131: the SELECT is submitted
GetConversationsCall(p) ==
    /\ CanCall(p)
    /\ procs' = [procs EXCEPT ![p] =
                    [NoProc EXCEPT !.op = "get_conversations", !.pc = "await1",
                                   !.fut = "pending",
                                   !.task = Len(submitLog) + 1,
                                   !.n0 = Cardinality(table),
                                   !.after = Len(addLog)]]
    /\ Submit(p, "select_conversations")
    /\ opsLeft' = opsLeft - 1
    /\ UNCHANGED <<table, committed, closed, running, execLog, lifespan>>
    /\ UNCHANGED <<agentVars, convVars, addLog>>

\* get_messages line 117, get_conversations line 132: the cursor is there,
\* c.fetchall is submitted
Fetchall(p) ==
    /\ procs[p].op \in {"get_messages", "get_conversations"}
    /\ procs[p].pc = "await1"
    /\ procs[p].fut \in {"ok", "exc"}
    /\ Resumes(p)
    /\ IF procs[p].fut = "ok"
       THEN /\ procs' = [procs EXCEPT ![p].pc = "await2", ![p].fut = "pending",
                                      ![p].task = Len(submitLog) + 1]
            /\ Submit(p, "fetchall")
       ELSE /\ procs' = [procs EXCEPT ![p].pc = "raised", ![p].fut = "none"]
            /\ UNCHANGED <<queue, submitLog>>
    /\ UNCHANGED <<table, committed, closed, running, execLog, opsLeft,
                   lifespan>>
    /\ UNCHANGED <<agentVars, convVars, addLog>>

\* get_messages, lines 118-121
GetMessagesReturn(p) ==
    /\ procs[p].op = "get_messages"
    /\ procs[p].pc = "await2"
    /\ procs[p].fut \in {"ok", "exc"}
    /\ Resumes(p)
    /\ procs' = [procs EXCEPT
                    ![p].pc = IF procs[p].fut = "ok" THEN "done" ELSE "raised",
                    ![p].ret = IF procs[p].fut = "ok"
                               THEN ExtendAll(procs[p].val) ELSE <<>>,
                    ![p].fut = "none", ![p].val = <<>>, ![p].cur = 0,
                    ![p].n1 = Cardinality(table)]
    /\ UNCHANGED <<table, committed, closed, queue, running, submitLog,
                   execLog, opsLeft, lifespan>>
    /\ UNCHANGED <<agentVars, convVars, addLog>>

\* get_conversations, line 133
GetConversationsReturn(p) ==
    /\ procs[p].op = "get_conversations"
    /\ procs[p].pc = "await2"
    /\ procs[p].fut \in {"ok", "exc"}
    /\ Resumes(p)
    /\ procs' = [procs EXCEPT
                    ![p].pc = IF procs[p].fut = "ok" THEN "done" ELSE "raised",
                    ![p].ret = IF procs[p].fut = "ok" THEN procs[p].val ELSE <<>>,
                    ![p].fut = "none", ![p].val = <<>>, ![p].cur = 0,
                    ![p].n1 = Cardinality(table)]
    /\ UNCHANGED <<table, committed, closed, queue, running, submitLog,
                   execLog, opsLeft, lifespan>>
    /\ UNCHANGED <<agentVars, convVars, addLog>>

\* Database.connect, lines 60-61: leaving the context submits con.close
Shutdown ==
    /\ lifespan = "up"
    /\ lifespan' = "closing"
    /\ Submit(0, "close")
    /\ UNCHANGED <<table, committed, closed, running, execLog, procs,
                   opsLeft>>
    /\ UNCHANGED <<agentVars, convVars, addLog>>

\* an idle worker thread takes the oldest call off the queue
WorkerStart(t) ==
    /\ running[t] = NoTask
    /\ queue # <<>>
    /\ running' = [running EXCEPT ![t] = Head(queue)]
    /\ queue' = Tail(queue)
    /\ execLog' = Append(execLog, Head(queue).id)
    /\ UNCHANGED <<table, committed, closed, submitLog, procs, opsLeft,
                   lifespan>>
    /\ UNCHANGED <<agentVars, convVars, addLog>>

\* the call a worker thread runs completes and resolves its future:
\* _execute (lines 148-152), con.commit, cursor.fetchall, con.close
WorkerFinish(t) ==
    LET task == running[t]
        p == task.proc
    IN  /\ task # NoTask
        /\ running' = [running EXCEPT ![t] = NoTask]
        /\ CASE task.fn = "close" ->
                  /\ closed' = TRUE
                  /\ lifespan' = "down"
                  /\ UNCHANGED <<table, committed, procs>>
             [] task.fn # "close" /\ closed ->
                  \* sqlite3.ProgrammingError: the connection is closed
                  /\ procs' = [procs EXCEPT ![p].fut = "exc"]
                  /\ UNCHANGED <<table, committed, closed, lifespan>>
             [] task.fn = "insert" /\ ~closed ->
                  /\ table' = Insert(table, procs[p].cid.val, procs[p].msg)
                  /\ committed' = MaxId(table')
                  \* the cursor _execute returns has the row's id (lastrowid)
                  /\ procs' = [procs EXCEPT ![p].fut = "ok",
                                            ![p].cur = MaxId(table')]
                  /\ UNCHANGED <<closed, lifespan>>
             [] task.fn = "commit" /\ ~closed ->
                  /\ committed' = MaxId(table)
                  /\ procs' = [procs EXCEPT ![p].fut = "ok"]
                  /\ UNCHANGED <<table, closed, lifespan>>
             [] task.fn \in {"select_messages", "select_conversations"}
                  /\ ~closed ->
                  /\ procs' = [procs EXCEPT ![p].fut = "ok",
                                            ![p].cur = MaxId(table)]
                  /\ UNCHANGED <<table, committed, closed, lifespan>>
             [] task.fn = "fetchall" /\ ~closed ->
                  /\ \E k \in procs[p].cur..MaxId(table) :
                       procs' = [procs EXCEPT
                          ![p].fut = "ok",
                          ![p].val =
                              IF procs[p].op = "get_messages"
                              THEN SelectMessageLists(SeenBy(table, k),
                                                      procs[p].cid)
                              ELSE SelectConversations(SeenBy(table, k))]
                  /\ UNCHANGED <<table, committed, closed, lifespan>>
        /\ UNCHANGED <<queue, submitLog, execLog, opsLeft>>
        /\ UNCHANGED <<agentVars, convVars, addLog>>

----------------------------------------------------------------------------
(* app.py: POST /chat/ *)

\* request bodies: what the body is, and its threadId when it has one
Bodies ==
    {[kind |-> "valid", threadId |-> None],
     [kind |-> "valid", threadId |-> Some(<<2>>)],
     [kind |-> "invalid_run_input", threadId |-> Some(<<2>>)],
     [kind |-> "not_an_object", threadId |-> None],
     [kind |-> "not_json", threadId |-> None]}
InputMessages == <<"u9">>
NewMessages == <<"a9">>

\* chat, line 257: body.get('threadId', f'conv-{int(time.time() * 1000)}')
ConversationIdOf(threadId, now) ==
    IF threadId.some THEN threadId.val ELSE <<9, now>>

\* chat, lines 251-288: the request is read and validated and the
\* streaming response is handed to the server
ChatRequest(p, body) ==
    /\ CanCall(p)
    /\ \E now \in {1} :
         LET kind == body.kind
             threadId == body.threadId
         IN
         procs' = [procs EXCEPT ![p] =
            [NoProc EXCEPT
                !.op = "chat",
                !.body = kind,
                !.cid = IF kind \in {"valid", "invalid_run_input"}
                        THEN Some(ConversationIdOf(threadId, now)) ELSE None,
                !.msg = dump_json(InputMessages),
                !.pc = IF kind = "valid" THEN "streaming" ELSE "done",
                !.status = CASE kind = "valid" -> 200
                             [] kind = "invalid_run_input" -> 422
                             [] OTHER -> 500,
                !.n0 = Cardinality(table)]]
    /\ opsLeft' = opsLeft - 1
    /\ UNCHANGED <<table, committed, closed, queue, running, submitLog,
                   execLog, lifespan>>
    /\ UNCHANGED <<agentVars, convVars, addLog>>

\* the server has consumed the event stream: the run is complete.  Nothing
\* was registered to run at completion (lines 282-283)
ChatStreamEnd(p) ==
    /\ procs[p].op = "chat"
    /\ procs[p].pc = "streaming"
    /\ procs' = [procs EXCEPT ![p].pc = "done", ![p].n1 = Cardinality(table)]
    /\ UNCHANGED <<table, committed, closed, queue, running, submitLog,
                   execLog, opsLeft, lifespan>>
    /\ UNCHANGED <<agentVars, convVars, addLog>>

----------------------------------------------------------------------------
(* utils.py: PydanticAI messages to AG-UI messages *)

\* A value that is a str, or one that is not (a list, a dict, an object).
Str(v) == [isstr |-> TRUE, v |-> v]
Obj(v) == [isstr |-> FALSE, v |-> v]

\* Python truth value of a content: "" and [] are false
PyTruthy(x) == x.v \notin {"", "[]"}

\* json.dumps of the values that are not strings
json_dumps(v) ==
    CASE v = "Plan" -> "{\"steps\": [\"collect underpants\", \"?\", \"profit!\"]}"
      [] v = "Guess" -> "{\"guess\": 4}"
      [] OTHER -> "null"

\* metadata of a tool return: None, or a list of entries.  An entry is a
\* dict with a "type", a dict without one (type ""), or no dict at all.
NoMeta == [isnone |-> TRUE, entries |-> <<>>]
Meta(entries) == [isnone |-> FALSE, entries |-> entries]
NoEvent == [isdict |-> FALSE, type |-> "", data |-> ""]
StateSnapshot ==
    [isdict |-> TRUE, type |-> "STATE_SNAPSHOT", data |-> "does_the_user_know"]
Custom == [isdict |-> TRUE, type |-> "CUSTOM", data |-> "secret_plan"]
RunStarted == [isdict |-> TRUE, type |-> "RUN_STARTED", data |-> ""]
Untyped == [isdict |-> TRUE, type |-> "", data |-> "note"]
NotADict == [isdict |-> FALSE, type |-> "", data |-> "CUSTOM"]
MetaEntries == {StateSnapshot, Custom, RunStarted, Untyped, NotADict}

\* parts of the PydanticAI messages
Part(kind, content, name, id, args, metadata) ==
    [part_kind |-> kind, content |-> content, tool_name |-> name,
     tool_call_id |-> id, args |-> args, metadata |-> metadata]
UserPrompt(content) == Part("user-prompt", content, "", "", Str(""), NoMeta)
SystemPrompt == Part("system-prompt", Str("Be Helpful"), "", "", Str(""), NoMeta)
ToolReturn(name, content, id, metadata) ==
    Part("tool-return", content, name, id, Str(""), metadata)
ToolCall(name, args, id) == Part("tool-call", Str(""), name, id, args, NoMeta)
Text(content) == Part("text", Str(content), "", "", Str(""), NoMeta)
Thinking == Part("thinking", Str("hm"), "", "", Str(""), NoMeta)

ModelRequest(parts) == [kind |-> "request", parts |-> parts]
ModelResponse(parts) == [kind |-> "response", parts |-> parts]

\* the AG-UI messages; an EventMessage keeps its content, a dict, in `event`
AGMessage(role, content, tool_calls, tool_call_id, event) ==
    [id |-> 0, role |-> role, content |-> content, tool_calls |-> tool_calls,
     tool_call_id |-> tool_call_id, event |-> event]

\* _process_user_prompt_part
process_user_prompt_part(part) ==
    IF ~part.content.isstr
    THEN [raised |-> TRUE, msgs |-> <<>>]
    ELSE [raised |-> FALSE,
          msgs |-> <<AGMessage("user", part.content.v, <<>>, "", NoEvent)>>]

\* _process_tool_return_part
process_tool_return_part(part) ==
    LET content == IF part.content.isstr THEN part.content.v
                   ELSE json_dumps(part.content.v)
    IN  AGMessage("tool", content, <<>>, part.tool_call_id, NoEvent)

\* a plausible slip: only the first of the two event types is recognized
RECURSIVE SnapshotsOnly(_)
SnapshotsOnly(entries) ==
    IF entries = <<>> THEN <<>>
    ELSE (IF Head(entries).isdict /\ Head(entries).type = "STATE_SNAPSHOT"
          THEN <<Head(entries)>> ELSE <<>>) \o SnapshotsOnly(Tail(entries))
extract_snapshots_only(part) ==
    IF part.metadata.isnone THEN <<>> ELSE SnapshotsOnly(part.metadata.entries)

\* _extract_metadata_events, the loop of lines 96-102
RECURSIVE RecognizedEvents(_)
RecognizedEvents(entries) ==
    IF entries = <<>> THEN <<>>
    ELSE LET meta == Head(entries)
         IN  (IF meta.isdict /\ meta.type \in {"STATE_SNAPSHOT", "CUSTOM"}
              THEN <<meta>> ELSE <<>>) \o RecognizedEvents(Tail(entries))

\* _extract_metadata_events
extract_metadata_events(part) ==
    IF part.metadata.isnone \/ part.metadata.entries = <<>> THEN <<>>
    ELSE RecognizedEvents(part.metadata.entries)

\* a plausible slip: the events are made whatever the mode
RECURSIVE request_with_events_always(_, _)
request_with_events_always(parts, events_too) ==
    IF parts = <<>> THEN [raised |-> FALSE, msgs |-> <<>>]
    ELSE LET part == Head(parts)
             this ==
                 IF part.part_kind = "user-prompt" /\ PyTruthy(part.content)
                 THEN process_user_prompt_part(part)
                 ELSE IF part.part_kind = "tool-return"
                 THEN LET evs == extract_metadata_events(part)
                      IN  [raised |-> FALSE,
                           msgs |-> [i \in 1..Len(evs) |->
                                        AGMessage("event", "", <<>>,
                                                  part.tool_call_id, evs[i])]
                                    \o <<process_tool_return_part(part)>>]
                 ELSE [raised |-> FALSE, msgs |-> <<>>]
             rest == request_with_events_always(Tail(parts), events_too)
         IN  IF this.raised \/ rest.raised
             THEN [raised |-> TRUE, msgs |-> <<>>]
             ELSE [raised |-> FALSE, msgs |-> this.msgs \o rest.msgs]

\* _process_model_request: the messages, or the TypeError of a part
RECURSIVE process_model_request(_, _)
process_model_request(parts, events_too) ==
    IF parts = <<>> THEN [raised |-> FALSE, msgs |-> <<>>]
    ELSE LET part == Head(parts)
             this ==
                 IF part.part_kind = "user-prompt" /\ PyTruthy(part.content)
                 THEN process_user_prompt_part(part)
                 ELSE IF part.part_kind = "tool-return"
                 THEN LET evs == IF events_too
                                 THEN extract_metadata_events(part) ELSE <<>>
                      IN  [raised |-> FALSE,
                           msgs |-> [i \in 1..Len(evs) |->
                                        AGMessage("event", "", <<>>,
                                                  part.tool_call_id, evs[i])]
                                    \o <<process_tool_return_part(part)>>]
                 ELSE [raised |-> FALSE, msgs |-> <<>>]
             rest == process_model_request(Tail(parts), events_too)
         IN  IF this.raised \/ rest.raised
             THEN [raised |-> TRUE, msgs |-> <<>>]
             ELSE [raised |-> FALSE, msgs |-> this.msgs \o rest.msgs]

\* a plausible slip: tool calls and text are put in one message
create_one_message(tool_calls, text_content) ==
    IF tool_calls = <<>> /\ text_content = "" THEN <<>>
    ELSE <<AGMessage("assistant", text_content, tool_calls, "", NoEvent)>>

\* _create_assistant_messages
create_assistant_messages(tool_calls, text_content) ==
    IF tool_calls # <<>> /\ text_content # ""
    THEN <<AGMessage("assistant", "", tool_calls, "", NoEvent),
           AGMessage("assistant", text_content, <<>>, "", NoEvent)>>
    ELSE IF tool_calls # <<>>
    THEN <<AGMessage("assistant", "", tool_calls, "", NoEvent)>>
    ELSE IF text_content # ""
    THEN <<AGMessage("assistant", text_content, <<>>, "", NoEvent)>>
    ELSE <<>>

\* a plausible slip: the first text is kept, not the last
RECURSIVE collect_first_text(_, _, _)
collect_first_text(parts, tool_calls, text_content) ==
    IF parts = <<>>
    THEN [tool_calls |-> tool_calls, text_content |-> text_content]
    ELSE LET part == Head(parts)
         IN  IF part.part_kind = "tool-call"
             THEN collect_first_text(Tail(parts),
                      Append(tool_calls,
                             [id |-> part.tool_call_id, name |-> part.tool_name,
                              arguments |-> IF part.args.isstr THEN part.args.v
                                            ELSE json_dumps(part.args.v)]),
                      text_content)
             ELSE IF part.part_kind = "text" /\ part.content.v # ""
                     /\ text_content = ""
             THEN collect_first_text(Tail(parts), tool_calls, part.content.v)
             ELSE collect_first_text(Tail(parts), tool_calls, text_content)

\* a plausible slip: the `and part.content` of line 214 is missing
RECURSIVE collect_any_text(_, _, _)
collect_any_text(parts, tool_calls, text_content) ==
    IF parts = <<>>
    THEN [tool_calls |-> tool_calls, text_content |-> text_content]
    ELSE LET part == Head(parts)
         IN  IF part.part_kind = "tool-call"
             THEN collect_any_text(Tail(parts),
                      Append(tool_calls,
                             [id |-> part.tool_call_id, name |-> part.tool_name,
                              arguments |-> IF part.args.isstr THEN part.args.v
                                            ELSE json_dumps(part.args.v)]),
                      text_content)
             ELSE IF part.part_kind = "text"
             THEN collect_any_text(Tail(parts), tool_calls, part.content.v)
             ELSE collect_any_text(Tail(parts), tool_calls, text_content)

\* _process_model_response, the loop of lines 204-215
RECURSIVE collect_parts(_, _, _)
collect_parts(parts, tool_calls, text_content) ==
    IF parts = <<>>
    THEN [tool_calls |-> tool_calls, text_content |-> text_content]
    ELSE LET part == Head(parts)
         IN  IF part.part_kind = "tool-call"
             THEN collect_parts(Tail(parts),
                      Append(tool_calls,
                             [id |-> part.tool_call_id, name |-> part.tool_name,
                              arguments |-> IF part.args.isstr THEN part.args.v
                                            ELSE json_dumps(part.args.v)]),
                      text_content)
             ELSE IF part.part_kind = "text" /\ part.content.v # ""
             THEN collect_parts(Tail(parts), tool_calls, part.content.v)
             ELSE collect_parts(Tail(parts), tool_calls, text_content)

\* _process_model_response
process_model_response(parts) ==
    LET c == collect_parts(parts, <<>>, "")
    IN  create_assistant_messages(c.tool_calls, c.text_content)

\* uuid.uuid4(): an id no message has yet; the messages of a conversion
\* are numbered in the order they are made
WithIds(msgs, n) == [k \in 1..Len(msgs) |-> [msgs[k] EXCEPT !.id = n + k]]

\* ---- the inputs ----

SeqsUpTo(S, n) == UNION {[1..len -> S] : len \in 0..n}

ResponseParts ==
    {ToolCall("secret_plan", Str("{\"password\":42}"), "call_1"),
     ToolCall("password_guesser_tool", Obj("Guess"), "call_2"),
     Text("The secret plan has been revealed!"), Text("Bye"), Text(""),
     Thinking}

MetaValues == {NoMeta} \cup {Meta(es) : es \in SeqsUpTo(MetaEntries, MaxMeta)}

\* every kind of part a request can hold
RequestParts ==
    {UserPrompt(Str("pw=42")), UserPrompt(Str("")), UserPrompt(Obj("[image]")),
     UserPrompt(Obj("[]")), SystemPrompt}
    \cup {ToolReturn("secret_plan", Str("The secret plan is revealed."),
                     "call_1", md) : md \in MetaValues}
    \cup {ToolReturn("secret_plan", Obj("Plan"), "call_2", md) :
            md \in MetaValues}

\* the parts of the requests that hold several
FewRequestParts ==
    {UserPrompt(Str("pw=42")),
     UserPrompt(Obj("[image]")),
     ToolReturn("secret_plan", Str("The secret plan is revealed."), "call_1",
                Meta(<<StateSnapshot, Custom>>)),
     ToolReturn("password_guesser_tool", Obj("Plan"), "call_2",
                Meta(<<RunStarted, Custom>>)),
     ToolReturn("password_guesser_tool", Str("lower"), "call_3", NoMeta)}

Responses == {ModelResponse(ps) : ps \in SeqsUpTo(ResponseParts, MaxParts)}
Requests ==
    {ModelRequest(<<p>>) : p \in RequestParts}
    \cup {ModelRequest(ps) : ps \in SeqsUpTo(FewRequestParts, MaxParts)}

\* test_msg_convert.py, lines 3-117: the stored conversation
Fixture ==
    <<ModelRequest(<<UserPrompt(Str("pw=42"))>>),
      ModelResponse(<<ToolCall("secret_plan", Str("{\"password\":42}"),
                               "call_1")>>),
      ModelRequest(<<ToolReturn("secret_plan",
                                Str("The secret plan is revealed."), "call_1",
                                Meta(<<StateSnapshot, Custom>>))>>),
      ModelResponse(<<Text("The secret plan has been revealed!")>>)>>

\* the messages the longer lists are made of
FewMessages ==
    {Fixture[i] : i \in 1..Len(Fixture)}
    \cup {ModelResponse(<<Text("Bye"),
                          ToolCall("secret_plan", Str("{\"password\":42}"),
                                   "call_1")>>),
          ModelRequest(<<UserPrompt(Obj("[image]"))>>)}

MessageLists ==
    {<<msg>> : msg \in Requests \cup Responses}
    \cup SeqsUpTo(FewMessages, MaxMsgs)
    \cup {Fixture}

\* ---- pydantic_ai2ag_ui ----

\* no earlier call; the return of one
NoCall == [done |-> FALSE, convert_events |-> FALSE, full_messages |-> <<>>]
Call(mode, list) ==
    [done |-> TRUE, convert_events |-> mode, full_messages |-> list]

\* how many ids the calls so far have drawn
IdsDrawn == Len(earlier.full_messages) + Len(full_messages)

InitConv ==
    /\ messages \in MessageLists
    /\ convert_events \in BOOLEAN
    /\ ci = 0
    /\ full_messages = <<>>
    /\ out = <<>>
    /\ cpc = "loop"
    /\ earlier = NoCall

\* lines 242-244: the next message is a ModelRequest
ConvertRequest ==
    /\ cpc = "loop"
    /\ ci < Len(messages)
    /\ messages[ci + 1].kind = "request"
    /\ LET r == process_model_request(messages[ci + 1].parts, convert_events)
       IN  IF r.raised
           THEN /\ cpc' = "raised"
                /\ out' = <<>>
                /\ UNCHANGED full_messages
           ELSE /\ out' = WithIds(r.msgs, IdsDrawn)
                /\ full_messages' = full_messages \o out'
                /\ cpc' = "loop"
    /\ ci' = ci + 1
    /\ UNCHANGED <<messages, convert_events, earlier>>
    /\ UNCHANGED <<agentVars, dbVars>>

\* a plausible slip: the messages of a response are put in front of the list
ConvertResponseInFront ==
    /\ cpc = "loop"
    /\ ci < Len(messages)
    /\ messages[ci + 1].kind = "response"
    /\ out' = WithIds(process_model_response(messages[ci + 1].parts),
                      IdsDrawn)
    /\ full_messages' = out' \o full_messages
    /\ ci' = ci + 1
    /\ UNCHANGED <<messages, convert_events, cpc, earlier>>
    /\ UNCHANGED <<agentVars, dbVars>>

\* lines 245-246: the next message is a ModelResponse
ConvertResponse ==
    /\ cpc = "loop"
    /\ ci < Len(messages)
    /\ messages[ci + 1].kind = "response"
    /\ out' = WithIds(process_model_response(messages[ci + 1].parts),
                      IdsDrawn)
    /\ full_messages' = full_messages \o out'
    /\ ci' = ci + 1
    /\ UNCHANGED <<messages, convert_events, cpc, earlier>>
    /\ UNCHANGED <<agentVars, dbVars>>

\* line 248: return full_messages
ConvertReturn ==
    /\ cpc = "loop"
    /\ ci = Len(messages)
    /\ cpc' = "returned"
    /\ UNCHANGED <<messages, convert_events, ci, full_messages, out, earlier>>
    /\ UNCHANGED <<agentVars, dbVars>>

\* app.py, lines 204 and 235: the stored list is converted in the other
\* mode too (POST /rehydrate/ and GET /display-messages/ of a conversation)
ConvertOtherMode ==
    /\ cpc = "returned"
    /\ ~earlier.done
    /\ earlier' = Call(convert_events, full_messages)
    /\ convert_events' = ~convert_events
    /\ ci' = 0
    /\ full_messages' = <<>>
    /\ out' = <<>>
    /\ cpc' = "loop"
    /\ UNCHANGED messages
    /\ UNCHANGED <<agentVars, dbVars>>

NextConv ==
    \/ ConvertRequest
    \/ ConvertResponse
    \/ ConvertReturn
    \/ ConvertOtherMode

----------------------------------------------------------------------------
(* Specifications *)

\* the variables of a part that a specification does not move
AgentIdle ==
    /\ terminal_tools = {}
    /\ handler = FALSE
    /\ apc = "next"
    /\ node = NoNode
    /\ ran = FALSE
    /\ cached = NoNode
    /\ marker = NoMarker
    /\ early_exit = FALSE
    /\ calls = <<>>
    /\ events = <<>>
    /\ result = NoFinal

DbIdle == DbStart({})

ConvIdle ==
    /\ messages = <<>>
    /\ convert_events = FALSE
    /\ ci = 0
    /\ full_messages = <<>>
    /\ out = <<>>
    /\ cpc = "loop"
    /\ earlier = [done |-> FALSE, convert_events |-> FALSE,
                  full_messages |-> <<>>]

\* one Agent.run call
InitAgentRun == InitAgent /\ DbIdle /\ ConvIdle

SpecAgent == InitAgentRun /\ [][NextAgent]_vars

\* the application: the store, its callers and POST /chat/
NextDb ==
    \/ \E p \in Procs, c \in ConvIds : AddMessagesCall(p, c)
    \/ \E p \in Procs : AddMessagesCommit(p)
    \/ \E p \in Procs : AddMessagesReturn(p)
    \/ \E p \in Procs, cid \in Wanted : GetMessagesCall(p, cid)
    \/ \E p \in Procs : GetConversationsCall(p)
    \/ \E p \in Procs : Fetchall(p)
    \/ \E p \in Procs : GetMessagesReturn(p)
    \/ \E p \in Procs : GetConversationsReturn(p)
    \/ \E p \in Procs, body \in Bodies : ChatRequest(p, body)
    \/ \E p \in Procs : ChatStreamEnd(p)
    \/ Shutdown
    \/ \E t \in Threads : WorkerStart(t)
    \/ \E t \in Threads : WorkerFinish(t)

InitApp == InitDb /\ AgentIdle /\ ConvIdle

SpecDb == InitApp /\ [][NextDb]_vars

\* one pydantic_ai2ag_ui call
InitConversion == InitConv /\ AgentIdle /\ DbIdle

SpecConv == InitConversion /\ [][NextConv]_vars

----------------------------------------------------------------------------
(* Properties of Agent.run *)

IsTerminalPart(part) ==
    part.part_kind = "tool-return" /\ part.tool_name \in terminal_tools

IsTerminalNode(n) ==
    /\ n.kind = "ModelRequestNode"
    /\ \E k \in 1..Len(n.parts) : IsTerminalPart(n.parts[k])

TerminalContent(n) ==
    LET k == CHOOSE i \in 1..Len(n.parts) :
                 /\ IsTerminalPart(n.parts[i])
                 /\ \A j \in 1..(i - 1) : ~IsTerminalPart(n.parts[j])
    IN  n.parts[k].content

ModelRequestsBefore(i) ==
    Cardinality({j \in 1..(i - 1) : calls[j].kind = "ModelRequestNode"})

\* C1: once the loop has visited a model-request node that carries a
\* tool-return part of a tool in terminal_tools, that node is the last one
\* visited, the loop is over, the run's EndMarker (and the returned result)
\* holds the content of the node's first such part, and the model was called
\* only for the model-request nodes visited before it: neither the terminal
\* node nor anything after it was run or streamed.
C1_TerminalToolEndsRun ==
    \A i \in 1..Len(calls) :
        IsTerminalNode(calls[i]) =>
            /\ i = Len(calls)
            /\ apc \in {"after_loop", "returned"}
            /\ marker.end
            /\ marker.value.output = TerminalContent(calls[i])
            /\ apc = "returned" => result.output = TerminalContent(calls[i])
            /\ NumModelCalls = ModelRequestsBefore(i)

C1_Witness ==
    /\ apc = "returned"
    /\ "secret_plan" \in terminal_tools
    /\ IsTerminalNode(calls[Len(calls)])
    /\ result.tool_name = "secret_plan"
    /\ result.output = secret_plan(4)
    /\ NumModelCalls = 1

\* C2: once a tool has set deps.early_exit, no model call follows, and the
\* run returns a synthesized result instead of the graph's own End result.
C2_FlagEndsRun ==
    /\ \A k \in 1..Len(events) :
           (events[k].e = "tool" /\ events[k].flag) =>
               \A j \in (k + 1)..Len(events) : events[j].e # "model"
    /\ (apc = "returned" /\ early_exit /\ terminal_tools = {}) =>
           calls[Len(calls)].kind # "End"

----------------------------------------------------------------------------
(* Properties of the store *)

IsPrefix(a, b) == Len(a) <= Len(b) /\ SubSeq(b, 1, Len(a)) = a

Executing == {t \in Threads : running[t] # NoTask}

\* C3: at most one call submitted to the executor (execute, fetchall,
\* commit, close) is executing at any instant, and the calls are started in
\* the order in which they were submitted.
C3_Serialized ==
    /\ Cardinality(Executing) <= 1
    /\ IsPrefix(execLog, submitLog)

C3_Witness ==
    /\ \E t \in Threads : running[t].fn = "insert"
    /\ Len(queue) = 2
    /\ queue[1].fn = "select_messages"
    /\ queue[2].fn = "close"

\* a get_messages / get_conversations call that returned and that no INSERT
\* overlapped: the table at its return is the table at its call
Returned(p, op) ==
    /\ procs[p].op = op
    /\ procs[p].pc = "done"
    /\ procs[p].n0 = procs[p].n1

\* the message lists of the rows of S with ids 1..n, in id order
RECURSIVE ConcatUpTo(_, _)
ConcatUpTo(S, n) ==
    IF n = 0 THEN <<>>
    ELSE ConcatUpTo(S, n - 1)
            \o (IF \E r \in S : r.id = n
                THEN validate_json((CHOOSE r \in S : r.id = n).message_list)
                ELSE <<>>)

\* C4: get_messages(c) returns the concatenation, in insertion order, of the
\* message lists of exactly the rows whose conversation_id equals c, for
\* every string c; get_messages(None) returns that of all rows.
C4_GetMessagesExact ==
    \A p \in Procs :
        Returned(p, "get_messages") =>
            LET stored == SeenBy(table, procs[p].n0)
                matching == IF procs[p].cid.some
                            THEN {r \in stored :
                                    r.conversation_id = procs[p].cid.val}
                            ELSE stored
            IN  procs[p].ret = ConcatUpTo(matching, procs[p].n0)

\* C5: get_conversations returns the conversation identifiers that occur in
\* a stored row, each once, in lexicographic order.
C5_ConversationsDistinctOrdered ==
    \A p \in Procs :
        Returned(p, "get_conversations") =>
            LET ret == procs[p].ret
            IN  /\ \A i \in 1..(Len(ret) - 1) : LexLess(ret[i], ret[i + 1])
                /\ {ret[i] : i \in 1..Len(ret)}
                       = {r.conversation_id : r \in SeenBy(table, procs[p].n0)}

C5_Witness ==
    \E p \in Procs :
        /\ Returned(p, "get_conversations")
        /\ procs[p].ret = << <<1, 2>>, <<2>> >>
        /\ \E r1, r2 \in table :
              /\ r1.id < r2.id
              /\ r1.conversation_id = <<2>>
              /\ r2.conversation_id = <<1, 2>>

\* C6: the store is append-only: every step keeps every row as it is, and a
\* row it adds comes after all the rows there were.
C6_AppendOnly ==
    [][/\ table \subseteq table'
       /\ \A r \in table' \ table : r.id > MaxId(table)]_vars

C6_Witness ==
    /\ Cardinality(table) = 2
    /\ \E r \in table : r.id = 1 /\ r.message_list = dump_json(<<"m0">>)
    /\ \E p \in Procs : procs[p].op = "chat" /\ procs[p].pc = "done"

\* C7: a POST /chat/ turn whose run has completed has added exactly one row,
\* keyed by the request's conversation identifier, holding the input
\* messages followed by the run's new messages.
C7_ChatTurnStored ==
    \A p \in Procs :
        (/\ procs[p].op = "chat"
         /\ procs[p].pc = "done"
         /\ procs[p].status = 200
         /\ queue = <<>>
         /\ Executing = {}) =>
            Cardinality({r \in table :
                /\ r.id > procs[p].n0
                /\ r.conversation_id = procs[p].cid.val
                /\ r.message_list = dump_json(InputMessages \o NewMessages)}) = 1

----------------------------------------------------------------------------
(* Properties of the converter *)

\* `out` is what the message messages[ci] was converted to
Converted(kind) == ci >= 1 /\ cpc # "raised" /\ messages[ci].kind = kind

IsToolCallPart(p) == p.part_kind = "tool-call"
IsTextPart(p) == p.part_kind = "text"
IsNonEmptyText(p) == IsTextPart(p) /\ p.content.v # ""
IsToolReturnPart(p) == p.part_kind = "tool-return"

HasToolCall(parts) == \E i \in 1..Len(parts) : IsToolCallPart(parts[i])
HasText(parts) == \E i \in 1..Len(parts) : IsTextPart(parts[i])
HasNonEmptyText(parts) == \E i \in 1..Len(parts) : IsNonEmptyText(parts[i])

\* the content of the last text part that is not empty
LastText(parts) ==
    LET i == CHOOSE k \in 1..Len(parts) :
                 /\ IsNonEmptyText(parts[k])
                 /\ \A l \in (k + 1)..Len(parts) : ~IsNonEmptyText(parts[l])
    IN  parts[i].content.v

\* the tool calls of the parts, and those a message carries
CallsOf(parts) ==
    LET tc == SelectSeq(parts, IsToolCallPart)
    IN  [i \in 1..Len(tc) |-> <<tc[i].tool_call_id, tc[i].tool_name>>]
CallsIn(msg) ==
    [i \in 1..Len(msg.tool_calls) |->
        <<msg.tool_calls[i].id, msg.tool_calls[i].name>>]

\* C8: a response with at least one tool-call part and non-empty text is
\* converted to exactly two assistant messages: the first has empty content
\* and all the tool calls in part order, the second has the text and no
\* tool calls.
C8_ToolCallsThenText ==
    (/\ Converted("response")
     /\ HasToolCall(messages[ci].parts)
     /\ HasNonEmptyText(messages[ci].parts))
    => /\ Len(out) = 2
       /\ out[1].role = "assistant"
       /\ out[1].content = ""
       /\ CallsIn(out[1]) = CallsOf(messages[ci].parts)
       /\ out[2].role = "assistant"
       /\ out[2].content = LastText(messages[ci].parts)
       /\ out[2].tool_calls = <<>>

\* two different tool calls after the text, converted
C8_Witness ==
    /\ Converted("response")
    /\ Len(messages[ci].parts) = 3
    /\ IsNonEmptyText(messages[ci].parts[1])
    /\ Len(CallsOf(messages[ci].parts)) = 2
    /\ CallsOf(messages[ci].parts)[1] # CallsOf(messages[ci].parts)[2]
    /\ Len(out) = 2
    /\ Len(out[1].tool_calls) = 2

\* C9 as stated: a response with exactly one of tool-call parts and text
\* parts is converted to exactly one assistant message: with only tool calls
\* it has empty content and all the tool calls, with only text it has a text
\* of the response as content and no tool calls.
C9_OneKindOneMessage ==
    (/\ Converted("response")
     /\ HasToolCall(messages[ci].parts) # HasText(messages[ci].parts))
    => /\ Len(out) = 1
       /\ out[1].role = "assistant"
       /\ HasToolCall(messages[ci].parts)
            => /\ out[1].content = ""
               /\ CallsIn(out[1]) = CallsOf(messages[ci].parts)
       /\ HasText(messages[ci].parts)
            => /\ \E i \in 1..Len(messages[ci].parts) :
                     /\ IsTextPart(messages[ci].parts[i])
                     /\ out[1].content = messages[ci].parts[i].content.v
               /\ out[1].tool_calls = <<>>

\* C9, amended: a response with exactly one of tool-call parts and
\* non-empty text parts is converted to exactly one assistant message: with
\* only tool calls it has empty content and all the tool calls in part
\* order, with only text it has the last non-empty text as content and no
\* tool calls.
C9_OneNonEmptyKindOneMessage ==
    (/\ Converted("response")
     /\ HasToolCall(messages[ci].parts) # HasNonEmptyText(messages[ci].parts))
    => /\ Len(out) = 1
       /\ out[1].role = "assistant"
       /\ HasToolCall(messages[ci].parts)
            => /\ out[1].content = ""
               /\ CallsIn(out[1]) = CallsOf(messages[ci].parts)
       /\ HasNonEmptyText(messages[ci].parts)
            => /\ out[1].content = LastText(messages[ci].parts)
               /\ out[1].tool_calls = <<>>

\* a text followed by an empty text, and nothing else, converted
C9_Witness ==
    /\ Converted("response")
    /\ ~HasToolCall(messages[ci].parts)
    /\ Len(messages[ci].parts) >= 2
    /\ IsNonEmptyText(messages[ci].parts[1])
    /\ IsTextPart(messages[ci].parts[Len(messages[ci].parts)])
    /\ ~IsNonEmptyText(messages[ci].parts[Len(messages[ci].parts)])
    /\ Len(out) = 1

\* the metadata entries of a tool return whose type is one of the two
TypedEvents(part) ==
    IF part.metadata.isnone THEN <<>>
    ELSE SelectSeq(part.metadata.entries,
                   LAMBDA e : e.type \in {"STATE_SNAPSHOT", "CUSTOM"})

\* where the k-th tool message of a list is
ToolMessageAt(list, k) ==
    CHOOSE j \in 1..Len(list) :
        /\ list[j].role = "tool"
        /\ Cardinality({i \in 1..j : list[i].role = "tool"}) = k

\* C10: in display mode, each tool-return part of a request gives one event
\* message (role "event", the part's tool_call_id) per metadata entry whose
\* type is STATE_SNAPSHOT or CUSTOM, in metadata order, immediately followed
\* by exactly one tool message for the part, events or not.
C10_EventsThenToolMessage ==
    (Converted("request") /\ convert_events)
    => LET trs == SelectSeq(messages[ci].parts, IsToolReturnPart)
       IN  /\ Cardinality({j \in 1..Len(out) : out[j].role = "tool"}) = Len(trs)
           /\ Len(out) > 0 => out[Len(out)].role # "event"
           /\ \A k \in 1..Len(trs) :
                LET part == trs[k]
                    evs == TypedEvents(part)
                    n == Len(evs)
                    j == ToolMessageAt(out, k)
                IN  /\ out[j].tool_call_id = part.tool_call_id
                    /\ out[j].content = IF part.content.isstr
                                        THEN part.content.v
                                        ELSE json_dumps(part.content.v)
                    /\ j > n
                    /\ \A i \in 1..n :
                         /\ out[j - n + i - 1].role = "event"
                         /\ out[j - n + i - 1].tool_call_id = part.tool_call_id
                         /\ out[j - n + i - 1].event = evs[i]
                    /\ j - n > 1 => out[j - n - 1].role # "event"

\* display mode: a tool return with an event among other metadata and a
\* tool return with no event, converted
C10_Witness ==
    /\ Converted("request")
    /\ convert_events
    /\ LET trs == SelectSeq(messages[ci].parts, IsToolReturnPart)
       IN  /\ \E k \in 1..Len(trs) :
                /\ Len(TypedEvents(trs[k])) >= 1
                /\ Len(trs[k].metadata.entries) > Len(TypedEvents(trs[k]))
           /\ \E k \in 1..Len(trs) : Len(TypedEvents(trs[k])) = 0
    /\ \E j \in 1..Len(out) : out[j].role = "event"

\* a list of messages without their ids
Bare(list) == [i \in 1..Len(list) |-> [list[i] EXCEPT !.id = 0]]

\* the messages one input message is converted to
MessagesFor(msg, mode) ==
    IF msg.kind = "request" THEN process_model_request(msg.parts, mode).msgs
    ELSE process_model_response(msg.parts)

RECURSIVE ConcatMessagesFor(_, _)
ConcatMessagesFor(list, mode) ==
    IF list = <<>> THEN <<>>
    ELSE MessagesFor(Head(list), mode) \o ConcatMessagesFor(Tail(list), mode)

RolesOf(list) == [i \in 1..Len(list) |-> list[i].role]

\* C11: the output of pydantic_ai2ag_ui is the concatenation, in input
\* order, of the messages each input message is converted to; the stored
\* conversation of test_msg_convert.py gives, in display mode, the roles
\* user, assistant (tool call), event, event, tool, assistant (text).
C11_OutputIsConcatenation ==
    /\ cpc # "raised"
         => Bare(full_messages)
              = ConcatMessagesFor(SubSeq(messages, 1, ci), convert_events)
    /\ (cpc = "returned" /\ messages = Fixture /\ convert_events)
         => /\ RolesOf(full_messages)
                 = <<"user", "assistant", "event", "event", "tool",
                     "assistant">>
            /\ full_messages[2].tool_calls # <<>>
            /\ full_messages[3].event.type = "STATE_SNAPSHOT"
            /\ full_messages[4].event.type = "CUSTOM"
            /\ full_messages[6].tool_calls = <<>>
            /\ full_messages[6].content = "The secret plan has been revealed!"

\* the stored conversation of the test, converted in display mode
C11_Witness ==
    /\ cpc = "returned"
    /\ messages = Fixture
    /\ convert_events
    /\ Len(full_messages) = 6

\* the list holds a request with a user-prompt part whose content is no str
HasNonStringPrompt(list) ==
    \E i \in 1..Len(list) :
        /\ list[i].kind = "request"
        /\ \E j \in 1..Len(list[i].parts) :
             /\ list[i].parts[j].part_kind = "user-prompt"
             /\ ~list[i].parts[j].content.isstr

\* C12: converting a list that holds a request with a user-prompt part
\* whose content is not a string raises a TypeError; the call returns no
\* list.
C12_NonStringPromptRaises ==
    HasNonStringPrompt(messages) => cpc # "returned"

\* what two messages are compared on
Compared(msg) ==
    [role |-> msg.role, content |-> msg.content,
     tool_calls |-> msg.tool_calls, tool_call_id |-> msg.tool_call_id]
ComparedOf(list) == [i \in 1..Len(list) |-> Compared(list[i])]
IsNoEvent(msg) == msg.role # "event"

\* C14: a compact conversion (convert_events=False) returns no event
\* message, and what it returns equals what the display conversion
\* (convert_events=True) of the same list returns with the messages of
\* role "event" taken out, compared on role, content, tool calls and
\* tool_call_id in order.
C14_CompactIsDisplayWithoutEvents ==
    /\ (cpc = "returned" /\ ~convert_events)
         => \A i \in 1..Len(full_messages) : IsNoEvent(full_messages[i])
    /\ earlier.done => cpc # "raised"
    /\ (earlier.done /\ cpc = "returned")
         => LET compact == IF convert_events THEN earlier.full_messages
                           ELSE full_messages
                display == IF convert_events THEN full_messages
                           ELSE earlier.full_messages
            IN  ComparedOf(compact) = ComparedOf(SelectSeq(display, IsNoEvent))

\* both conversions of a list returned, the display one with an event
C14_Witness ==
    /\ earlier.done
    /\ cpc = "returned"
    /\ ~convert_events
    /\ \E i \in 1..Len(earlier.full_messages) :
         ~IsNoEvent(earlier.full_messages[i])
    /\ Len(full_messages) >= 2

\* where the messages with a text, and those with tool calls, are
TextMessages(list) == {i \in 1..Len(list) : list[i].content # ""}
CallMessages(list) == {i \in 1..Len(list) : list[i].tool_calls # <<>>}

\* C19: for a response, the one assistant message with a text has the
\* content of the last non-empty text part and no earlier text is emitted;
\* the message with the tool calls comes before it whatever the order of
\* the parts; a response with no tool-call part and no non-empty text part
\* gives no message.
C19_LastTextAfterToolCalls ==
    Converted("response")
    => LET parts == messages[ci].parts
       IN  /\ HasNonEmptyText(parts)
                => /\ Cardinality(TextMessages(out)) = 1
                   /\ \A i \in TextMessages(out) :
                        out[i].content = LastText(parts)
           /\ ~HasNonEmptyText(parts) => TextMessages(out) = {}
           /\ \A i \in CallMessages(out) : \A j \in TextMessages(out) : i < j
           /\ (~HasToolCall(parts) /\ ~HasNonEmptyText(parts)) => out = <<>>

\* two different texts and then a tool call, converted
C19_Witness ==
    /\ Converted("response")
    /\ Len(messages[ci].parts) = 3
    /\ IsNonEmptyText(messages[ci].parts[1])
    /\ IsNonEmptyText(messages[ci].parts[2])
    /\ messages[ci].parts[1] # messages[ci].parts[2]
    /\ IsToolCallPart(messages[ci].parts[3])
    /\ Len(out) = 2
    /\ out[2].content = messages[ci].parts[2].content.v

\* the lists `blocks` are in `list` one after the other, from `start` on
RECURSIVE BlocksIn(_, _, _)
BlocksIn(list, start, blocks) ==
    IF blocks = <<>> THEN TRUE
    ELSE LET b == Head(blocks)
         IN  \E j \in start..(Len(list) - Len(b) + 1) :
                /\ SubSeq(list, j, j + Len(b) - 1) = b
                /\ BlocksIn(list, j + Len(b), Tail(blocks))

\* the row of an add_messages call that returned
RowOf(a) ==
    [id |-> a.row, conversation_id |-> a.conversation_id,
     message_list |-> a.message_list]

\* the rows a run has written, and the add_messages calls whose INSERT ran
\* and that have not returned
WrittenRows == {r \in table : r \notin UNION InitialTables}
InsertedNotReturned ==
    {p \in Procs : /\ procs[p].op = "add_messages"
                   /\ procs[p].pc # "done"
                   /\ procs[p].cur > 0}

\* the messages of the calls addLog[1..n] for conversation c, in the order
\* the calls returned
ReturnedLists(n, c) ==
    LET mine == SelectSeq(SubSeq(addLog, 1, n),
                          LAMBDA a : a.conversation_id = c)
    IN  [i \in 1..Len(mine) |-> validate_json(mine[i].message_list)]

RowsAt(n) == {r \in table : r.id <= n}
SelectedAt(n, cid) ==
    IF Truthy(cid) THEN {r \in RowsAt(n) : r.conversation_id = cid.val}
    ELSE RowsAt(n)

Malformed == {b.kind : b \in Bodies} \ {"valid"}

\* C13: a POST /chat/ with a malformed payload is answered with 422; no
\* agent run is started and the request submits nothing to the database.
C13_MalformedGets422 ==
    \A p \in Procs :
        (procs[p].op = "chat" /\ procs[p].body \in Malformed)
        => /\ procs[p].status = 422
           /\ procs[p].pc = "done"
           /\ procs[p].task = 0

----------------------------------------------------------------------------
(* More properties of Agent.run *)

NoTerminalVisited == \A i \in 1..Len(calls) : ~IsTerminalNode(calls[i])

VisitedOfKind(kind) == {i \in 1..Len(calls) : calls[i].kind = kind}

\* the tool calls of the call-tools nodes calls[1..n]
RECURSIVE ToolCallsVisited(_)
ToolCallsVisited(n) ==
    IF n = 0 THEN 0
    ELSE ToolCallsVisited(n - 1)
           + (IF calls[n].kind = "CallToolsNode"
              THEN Cardinality({k \in 1..Len(calls[n].parts) :
                                  calls[n].parts[k].part_kind = "tool-call"})
              ELSE 0)

============================================================================
